---- MODULE Spec2Model ----
(***************************************************************************)
(* The asynchronous resource loading pipeline of SketchBase:               *)
(*   ResourceManager          (src/src/base/ResourceManager.ts)            *)
(*   AsyncResourceManager     (src/unnamed/part_012, the web worker)       *)
(*   ResourceStatus, loaders  (src/unnamed/part_009)                       *)
(*   Texture, TextureLoader   (src/src/base/d.ts)                          *)
(*   assert, assertDefined    (src/src/base/Util.ts)                       *)
(*                                                                         *)
(* The main context runs loadResourceList, unloadResourceList, update()    *)
(* and the worker.onmessage callback, each to completion.  The worker      *)
(* context runs onMessage, the continuations of loadResource after each    *)
(* await, and the setInterval tick update().  The two contexts share no    *)
(* memory: postMessage structured-clones its argument.                     *)
(***************************************************************************)
EXTENDS Integers, Sequences, FiniteSets, TLC

(***************************************************************************)
(* Bounds of the model.                                                    *)
(***************************************************************************)
\* Total number of resources registered by loadResourceList in one run.
MaxLoads == 2
\* Longest list handed to loadResourceList / unloadResourceList.
MaxListLen == 2

\* The uris the caller uses (ordinary file names, not integer-like and not
\* names inherited from Object.prototype).
Uris == {"a.png", "b.png"}
\* Resource types: "Texture" has a loader, "Mesh" has none.
Types == {"Texture", "Mesh"}
\* HTTP-like status codes a fetch may resolve with.
FetchStatuses == {200, 204, 404}

(***************************************************************************)
(* Optional values: a field that is undefined / deleted is <<>>, a field   *)
(* holding v is <<v>>.                                                     *)
(***************************************************************************)
None == <<>>
Some(v) == <<v>>
defined(v) == v # None

(***************************************************************************)
(* enum ResourceStatus                                                     *)
(***************************************************************************)
Initializing == "Initializing"
LoadingAsync == "LoadingAsync"
LoadingSync == "LoadingSync"
Loaded == "Loaded"
Unloaded == "Unloaded"
Failed == "Failed"
ResourceStatus == {Initializing, LoadingAsync, LoadingSync, Loaded, Unloaded, Failed}

\* export const loaders = { 'Texture': new TextureLoader() }
loaders == {"Texture"}
HasLoader(type) == type \in loaders

VARIABLES
    resources,     \* ResourceManager.resources, in key (insertion) order
    messages,      \* ResourceManager.messages, worker events buffered until update()
    toWorker,      \* batches posted by update(), not yet received by the worker
    loading,       \* worker: loadResource calls suspended at an await
    processed,     \* AsyncResourceManager.processed
    transferList,  \* AsyncResourceManager.transferList
    toMain,        \* messages posted by the worker, not yet delivered to onmessage
    textures,      \* the device: textures created and not removed
    nextTexture,   \* the device: next handle createTexture returns
    loads,         \* number of registrations so far
    fx             \* what the last operation did (calls made, error raised)

vars == <<resources, messages, toWorker, loading, processed, transferList, toMain,
          textures, nextTexture, loads, fx>>


(***************************************************************************)
(* What the caller hands to loadResourceList: a fresh descriptor.  One of   *)
(* type "Texture" is a new Texture() with uri and type set (width = 0,     *)
(* height = 0, texture = -1 from the field initialisers); one of another   *)
(* type is an object literal { uri, type }.                                *)
(***************************************************************************)
Descriptors == [uri : Uris, type : Types]

\* The Resource object a descriptor denotes, before loadResourceList sets status.
\* reg is the number of the registration (history, not a field of the code).
Texture(d, reg) ==
    [uri |-> d.uri, type |-> d.type, status |-> Initializing, error |-> None,
     texture |-> IF d.type = "Texture" THEN Some(-1) ELSE None,
     width |-> IF d.type = "Texture" THEN Some(0) ELSE None,
     height |-> IF d.type = "Texture" THEN Some(0) ELSE None,
     imageBuffer |-> None, imageBitmap |-> None, imageElement |-> None,
     reg |-> reg]

(***************************************************************************)
(* The registry: a JavaScript object used as a map.  Its own string keys   *)
(* are kept in insertion order; assigning to an existing key keeps the     *)
(* key's place, delete removes it.                                         *)
(***************************************************************************)
Has(reg, uri) == \E i \in 1..Len(reg) : reg[i].uri = uri
IndexOf(reg, uri) == CHOOSE i \in 1..Len(reg) : reg[i].uri = uri
Get(reg, uri) == reg[IndexOf(reg, uri)]
RemoveAt(s, i) == [j \in 1..(Len(s) - 1) |-> IF j < i THEN s[j] ELSE s[j + 1]]
Delete(reg, uri) == IF Has(reg, uri) THEN RemoveAt(reg, IndexOf(reg, uri)) ELSE reg
\* this.resources[ res.uri ] = res
Put(reg, res) ==
    IF Has(reg, res.uri) THEN [reg EXCEPT ![IndexOf(reg, res.uri)] = res]
    ELSE Append(reg, res)
UrisOf(reg) == {reg[i].uri : i \in 1..Len(reg)}

\* Non-empty lists of at most n elements of S.
ListsOf(S, n) == UNION {[1..k -> S] : k \in 1..n}

(***************************************************************************)
(* fx: the calls the last operation made and the error it raised.          *)
(***************************************************************************)
NoFx(op) ==
    [op |-> op, error |-> None, unloads |-> <<>>, removes |-> <<>>,
     creates |-> <<>>, syncs |-> <<>>, images |-> <<>>, posted |-> <<>>,
     applied |-> <<>>]

(***************************************************************************)
(* Util.ts                                                                 *)
(***************************************************************************)
\* assert with the check compiled out.
assertDisabled(b, message) == None
\* assert( b, message ): the Error it throws, if any.
assert(b, message) == IF ~b THEN Some(<<"Assert fail: ">> \o message) ELSE None
\* assertDefined( v, msg ): the Error it throws, if any.
assertDefined(present, msg) == IF present THEN None ELSE Some(msg)

(***************************************************************************)
(* ResourceManager.loadResourceList( list )                                *)
(***************************************************************************)
\* A loadResourceList that checks the whole list before it registers anything.
LoadLoopChecksFirst(list, i, st) ==
    LET Dup(j) == \/ Has(st.resources, list[j].uri)
                  \/ \E n \in i..(j - 1) : list[n].uri = list[j].uri
        bad == {j \in i..Len(list) : Dup(j)}
        rest == [j \in 1..(Len(list) - i + 1) |-> Texture(list[i + j - 1], st.loads + j)]
    IN IF bad # {}
       THEN LET k == CHOOSE j \in bad : \A n \in bad : j <= n
            IN [st EXCEPT !.error = assert(FALSE, <<"Attempt to re-load resource: ",
                                                   list[k].uri>>)]
       ELSE [st EXCEPT !.resources = st.resources \o rest,
                       !.loads = st.loads + Len(rest)]

\* The loop from element i on; st = [resources, loads, error].
RECURSIVE LoadLoop(_, _, _)
LoadLoop(list, i, st) ==
    IF i > Len(list) THEN st
    ELSE LET r == list[i]
             err == assert(~Has(st.resources, r.uri),
                           <<"Attempt to re-load resource: ", r.uri>>)
         IN IF defined(err) THEN [st EXCEPT !.error = err]
            ELSE LoadLoop(list, i + 1,
                          [st EXCEPT !.resources = Put(st.resources,
                                                       Texture(r, st.loads + 1)),
                                     !.loads = st.loads + 1])

loadResourceList(list) ==
    /\ LET st == LoadLoop(list, 1, [resources |-> resources, loads |-> loads,
                                    error |-> None])
       IN /\ st.loads <= MaxLoads   \* the run registers at most MaxLoads resources
          /\ resources' = st.resources
          /\ loads' = st.loads
          /\ fx' = [NoFx("loadResourceList") EXCEPT !.error = st.error]
    /\ UNCHANGED <<messages, toWorker, loading, processed, transferList, toMain,
                   textures, nextTexture>>

(***************************************************************************)
(* ResourceManager.unloadResourceList( list )                              *)
(***************************************************************************)
\* res.status = ResourceStatus.Unloaded
MarkUnloaded(res) == [res EXCEPT !.status = Unloaded]

\* unloadResourceList passing over a uri that is not registered.
RECURSIVE UnloadLoopSkipUnknown(_, _, _)
UnloadLoopSkipUnknown(list, i, st) ==
    IF i > Len(list) THEN st
    ELSE UnloadLoopSkipUnknown(list, i + 1,
             IF Has(st.resources, list[i])
             THEN [st EXCEPT !.resources =
                      Put(st.resources, MarkUnloaded(Get(st.resources, list[i])))]
             ELSE st)

RECURSIVE UnloadLoop(_, _, _)
UnloadLoop(list, i, st) ==
    IF i > Len(list) THEN st
    ELSE LET uri == list[i]
             err == assertDefined(Has(st.resources, uri),
                                  <<"Attempt to unload unknown resource: ", uri>>)
         IN IF defined(err) THEN [st EXCEPT !.error = err]
            ELSE UnloadLoop(list, i + 1,
                            [st EXCEPT !.resources =
                                Put(st.resources, MarkUnloaded(Get(st.resources, uri)))])

unloadResourceList(list) ==
    /\ LET st == UnloadLoop(list, 1, [resources |-> resources, error |-> None])
       IN /\ resources' = st.resources
          /\ fx' = [NoFx("unloadResourceList") EXCEPT !.error = st.error]
    /\ UNCHANGED <<messages, toWorker, loading, processed, transferList, toMain,
                   textures, nextTexture, loads>>

(***************************************************************************)
(* The platform and the device (external collaborators).                   *)
(***************************************************************************)
\* The value of `await uriData.arrayBuffer()` for the payload fetched for res.
ArrayBuffer(res) == [uri |-> res.uri, reg |-> res.reg]
\* The natural size of the image encoded in a payload.
ImageSize(buf) == IF buf.uri = "a.png" THEN [width |-> 4, height |-> 2]
                  ELSE [width |-> 8, height |-> 6]
\* An Image element that is decoded as soon as its src is set.
ImageDecodedAtOnce(buf) ==
    [src |-> buf, complete |-> TRUE,
     width |-> ImageSize(buf).width, height |-> ImageSize(buf).height]
\* new Image() with src set: decoding has only been scheduled, complete is false.
Image(buf) == [src |-> buf, complete |-> FALSE, width |-> 0, height |-> 0]
\* gfxDevice.removeTexture( id )
removeTexture(texs, id) == {t \in texs : t.id # id}

(***************************************************************************)
(* TextureLoader (d.ts)                                                    *)
(***************************************************************************)
\* loadSync without `delete res.imageElement` after the upload.
loadSyncKeepsElement(res, ok, id) ==
    LET thrown == Some(<<"createTexture failed: ", res.uri>>)
        Out(r, done, err, cr, im) ==
            [res |-> r, done |-> done, error |-> err, creates |-> cr, images |-> im]
        r1 == IF defined(res.imageBuffer)
              THEN [res EXCEPT !.imageBuffer = None,
                               !.imageElement = Some(Image(res.imageBuffer[1]))]
              ELSE res
        im == IF defined(res.imageBuffer) THEN <<res.imageBuffer[1]>> ELSE <<>>
    IN IF defined(r1.imageElement) /\ r1.imageElement[1].complete
       THEN IF ~ok THEN Out(r1, FALSE, thrown, <<>>, im)
            ELSE Out([r1 EXCEPT !.texture = Some(id),
                                !.width = Some(r1.imageElement[1].width),
                                !.height = Some(r1.imageElement[1].height)],
                     TRUE, None, <<[id |-> id, uri |-> res.uri]>>, im)
       ELSE Out(r1, FALSE, None, <<>>, im)

\* loadSync without `delete res.imageBuffer`.
loadSyncKeepsBuffer(res, ok, id) ==
    LET thrown == Some(<<"createTexture failed: ", res.uri>>)
        Out(r, done, err, cr, im) ==
            [res |-> r, done |-> done, error |-> err, creates |-> cr, images |-> im]
        r1 == IF defined(res.imageBuffer)
              THEN [res EXCEPT !.imageElement = Some(Image(res.imageBuffer[1]))]
              ELSE res
        im == IF defined(res.imageBuffer) THEN <<res.imageBuffer[1]>> ELSE <<>>
    IN IF defined(r1.imageElement) /\ r1.imageElement[1].complete
       THEN IF ~ok THEN Out(r1, FALSE, thrown, <<>>, im)
            ELSE Out([r1 EXCEPT !.texture = Some(id),
                                !.width = Some(r1.imageElement[1].width),
                                !.height = Some(r1.imageElement[1].height),
                                !.imageElement = None],
                     TRUE, None, <<[id |-> id, uri |-> res.uri]>>, im)
       ELSE Out(r1, FALSE, None, <<>>, im)

\* loadSync( res, context ): ok says whether createTexture succeeds if called,
\* id is the handle it would return.  An Image element is identified by the
\* buffer it decodes: each buffer is consumed by one call.
\* Result: the resource as left by the call, done or the error thrown, and the
\* createTexture / new Image() calls made.
loadSync(res, ok, id) ==
    LET thrown == Some(<<"createTexture failed: ", res.uri>>)
        Out(r, done, err, cr, im) ==
            [res |-> r, done |-> done, error |-> err, creates |-> cr, images |-> im]
    IN IF defined(res.imageBitmap)
       THEN IF ~ok THEN Out(res, FALSE, thrown, <<>>, <<>>)
            ELSE Out([res EXCEPT !.texture = Some(id),
                                 !.width = Some(res.imageBitmap[1].width),
                                 !.height = Some(res.imageBitmap[1].height),
                                 !.imageBitmap = None],
                     TRUE, None, <<[id |-> id, uri |-> res.uri]>>, <<>>)
       ELSE LET r1 == IF defined(res.imageBuffer)
                      THEN [res EXCEPT !.imageBuffer = None,
                                       !.imageElement = Some(Image(res.imageBuffer[1]))]
                      ELSE res
                im == IF defined(res.imageBuffer) THEN <<res.imageBuffer[1]>> ELSE <<>>
            IN IF defined(r1.imageElement) /\ r1.imageElement[1].complete
               THEN IF ~ok THEN Out(r1, FALSE, thrown, <<>>, im)
                    ELSE Out([r1 EXCEPT !.texture = Some(id),
                                        !.width = Some(r1.imageElement[1].width),
                                        !.height = Some(r1.imageElement[1].height),
                                        !.imageElement = None],
                             TRUE, None, <<[id |-> id, uri |-> res.uri]>>, im)
               ELSE Out(r1, FALSE, None, <<>>, im)

\* unload( res, context ): the handles passed to gfxDevice.removeTexture.
\* context.gfxDevice is the renderer given to initialize(), always present.
unload(res) == IF defined(res.texture) THEN <<res.texture[1]>> ELSE <<>>

(***************************************************************************)
(* ResourceManager.update()                                                *)
(***************************************************************************)
\* Reply application that makes the reply's resources the whole registry.
ApplyDataReplace(reg, data, i) == data

\* for( const res of updatedResources ) { this.resources[ res.uri ] = res; }
RECURSIVE ApplyData(_, _, _)
ApplyData(reg, data, i) ==
    IF i > Len(data) THEN reg ELSE ApplyData(Put(reg, data[i]), data, i + 1)

\* for( const msg of this.messages ) ...
RECURSIVE ApplyMessages(_, _, _)
ApplyMessages(reg, msgs, i) ==
    IF i > Len(msgs) THEN reg
    ELSE ApplyMessages(ApplyData(reg, msgs[i].data, 1), msgs, i + 1)

\* The uri and registration of every snapshot in the buffered messages, in order.
RECURSIVE Snapshots(_, _)
Snapshots(msgs, i) ==
    IF i > Len(msgs) THEN <<>>
    ELSE [k \in 1..Len(msgs[i].data) |->
             [uri |-> msgs[i].data[k].uri, reg |-> msgs[i].data[k].reg]]
         \o Snapshots(msgs, i + 1)

\* The processing loop with `case Loaded` falling through to `case Unloaded`.
ProcessResourceLoadedFallsThrough(st, res, ok) ==
    CASE res.status = Initializing ->
            LET r == [res EXCEPT !.status = LoadingAsync]
            IN [st EXCEPT !.asyncList = Append(st.asyncList, r),
                          !.resources = Put(st.resources, r)]
      [] res.status = LoadingSync ->
            IF ~HasLoader(res.type)
            THEN [st EXCEPT !.resources = Put(st.resources,
                     [res EXCEPT !.error = Some(<<"loader is undefined">>),
                                 !.status = Failed])]
            ELSE LET o == loadSync(res, ok[res.uri], st.nextTexture)
                     r == IF defined(o.error)
                          THEN [o.res EXCEPT !.error = o.error, !.status = Failed]
                          ELSE IF o.done THEN [o.res EXCEPT !.status = Loaded]
                          ELSE o.res
                 IN [st EXCEPT !.resources = Put(st.resources, r),
                               !.textures = st.textures \cup {o.creates[k] : k \in 1..Len(o.creates)},
                               !.nextTexture = st.nextTexture + Len(o.creates),
                               !.fx.syncs = Append(st.fx.syncs, res.uri),
                               !.fx.creates = st.fx.creates \o o.creates,
                               !.fx.images = st.fx.images \o o.images]
      [] res.status \in {Loaded, Unloaded} ->
            IF ~HasLoader(res.type)
            THEN [st EXCEPT !.fx.error = Some(<<"loader is undefined">>)]
            ELSE [st EXCEPT !.resources = Delete(st.resources, res.uri),
                            !.textures = IF unload(res) = <<>> THEN st.textures
                                         ELSE removeTexture(st.textures, unload(res)[1]),
                            !.fx.unloads = Append(st.fx.unloads, res.uri),
                            !.fx.removes = st.fx.removes \o unload(res)]
      [] OTHER -> st

\* One iteration of the processing loop, on the resource object res.
\* st = [resources, asyncList, textures, nextTexture, fx].
ProcessResource(st, res, ok) ==
    CASE res.status = Initializing ->
            LET r == [res EXCEPT !.status = LoadingAsync]
            IN [st EXCEPT !.asyncList = Append(st.asyncList, r),
                          !.resources = Put(st.resources, r)]
      [] res.status = LoadingSync ->
            IF ~HasLoader(res.type)
            THEN \* loader is undefined: the TypeError is caught like any other
                 [st EXCEPT !.resources = Put(st.resources,
                     [res EXCEPT !.error = Some(<<"loader is undefined">>),
                                 !.status = Failed])]
            ELSE LET o == loadSync(res, ok[res.uri], st.nextTexture)
                     r == IF defined(o.error)
                          THEN [o.res EXCEPT !.error = o.error, !.status = Failed]
                          ELSE IF o.done THEN [o.res EXCEPT !.status = Loaded]
                          ELSE o.res
                 IN [st EXCEPT !.resources = Put(st.resources, r),
                               !.textures = st.textures \cup {o.creates[k] : k \in 1..Len(o.creates)},
                               !.nextTexture = st.nextTexture + Len(o.creates),
                               !.fx.syncs = Append(st.fx.syncs, res.uri),
                               !.fx.creates = st.fx.creates \o o.creates,
                               !.fx.images = st.fx.images \o o.images]
      [] res.status = Unloaded ->
            IF ~HasLoader(res.type)
            THEN \* loader.unload on undefined: a TypeError nothing catches
                 [st EXCEPT !.fx.error = Some(<<"loader is undefined">>)]
            ELSE [st EXCEPT !.resources = Delete(st.resources, res.uri),
                            !.textures = IF unload(res) = <<>> THEN st.textures
                                         ELSE removeTexture(st.textures, unload(res)[1]),
                            !.fx.unloads = Append(st.fx.unloads, res.uri),
                            !.fx.removes = st.fx.removes \o unload(res)]
      [] OTHER -> st   \* LoadingAsync, Loaded, Failed: break

\* for( const resource of Object.values( this.resources ) ): the values are
\* collected before the first iteration; an exception ends the loop.
RECURSIVE ProcessAll(_, _, _, _)
ProcessAll(values, i, st, ok) ==
    IF i > Len(values) \/ defined(st.fx.error) THEN st
    ELSE ProcessAll(values, i + 1, ProcessResource(st, values[i], ok), ok)

\* update() up to the end of the processing loop, from the current state.
updateLoop(ok) ==
    LET applied == ApplyMessages(resources, messages, 1)
    IN ProcessAll(applied, 1,
                  [resources |-> applied, asyncList |-> <<>>, textures |-> textures,
                   nextTexture |-> nextTexture,
                   fx |-> [NoFx("update") EXCEPT !.applied = Snapshots(messages, 1)]],
                  ok)

\* update() posting its batch without the test `asyncList.length > 0`.
updateAlwaysPosts(ok) ==
    LET st == updateLoop(ok)
        post == ~defined(st.fx.error)
    IN /\ resources' = st.resources
       /\ messages' = <<>>
       /\ toWorker' = IF post THEN Append(toWorker, st.asyncList) ELSE toWorker
       /\ textures' = st.textures
       /\ nextTexture' = st.nextTexture
       /\ fx' = [st.fx EXCEPT !.posted = IF post
                                          THEN [k \in 1..Len(st.asyncList) |-> st.asyncList[k].uri]
                                          ELSE <<>>]
       /\ UNCHANGED <<loading, processed, transferList, toMain, loads>>

update(ok) ==
    LET st == updateLoop(ok)
        post == ~defined(st.fx.error) /\ Len(st.asyncList) > 0
    IN /\ resources' = st.resources
       /\ messages' = <<>>
       /\ toWorker' = IF post THEN Append(toWorker, st.asyncList) ELSE toWorker
       /\ textures' = st.textures
       /\ nextTexture' = st.nextTexture
       /\ fx' = [st.fx EXCEPT !.posted = IF post
                                          THEN [k \in 1..Len(st.asyncList) |-> st.asyncList[k].uri]
                                          ELSE <<>>]
       /\ UNCHANGED <<loading, processed, transferList, toMain, loads>>

\* A callback that applies the reply to the registry as it arrives.
onmessageApplies ==
    /\ toMain # <<>>
    /\ resources' = ApplyData(resources, Head(toMain).data, 1)
    /\ toMain' = Tail(toMain)
    /\ fx' = NoFx("onmessage")
    /\ UNCHANGED <<messages, toWorker, loading, processed, transferList,
                   textures, nextTexture, loads>>

\* this.worker.onmessage = ( msg ) => this.messages.push( msg )
onmessage ==
    /\ toMain # <<>>
    /\ messages' = Append(messages, Head(toMain))
    /\ toMain' = Tail(toMain)
    /\ fx' = NoFx("onmessage")
    /\ UNCHANGED <<resources, toWorker, loading, processed, transferList,
                   textures, nextTexture, loads>>

\* The platform finishes decoding the Image element held by the entry of uri:
\* complete becomes true; a payload that does not decode leaves a broken image.
ImageComplete(uri, decoded) ==
    /\ Has(resources, uri)
    /\ defined(Get(resources, uri).imageElement)
    /\ ~Get(resources, uri).imageElement[1].complete
    /\ LET res == Get(resources, uri)
           el == res.imageElement[1]
           size == IF decoded THEN ImageSize(el.src) ELSE [width |-> 0, height |-> 0]
       IN resources' = Put(resources,
              [res EXCEPT !.imageElement = Some([el EXCEPT !.complete = TRUE,
                                                           !.width = size.width,
                                                           !.height = size.height])])
    /\ fx' = NoFx("ImageComplete")
    /\ UNCHANGED <<messages, toWorker, loading, processed, transferList, toMain,
                   textures, nextTexture, loads>>

(***************************************************************************)
(* AsyncResourceManager (the worker, part_012)                             *)
(***************************************************************************)
\* A catch block that records the message and leaves the status as it is.
CatchKeepsStatus(res, message) == [res EXCEPT !.error = Some(message)]

\* catch ( error ): resource.error = error.message; status = Failed
Catch(res, message) == [res EXCEPT !.error = Some(message), !.status = Failed]

\* response.status != 200
FetchFailed(status) == status # 200

\* loadResource that fetches before it looks the loader up.
loadResourceFetchesFirst(w, resource) ==
    [w EXCEPT !.loading = w.loading \cup {[res |-> resource, pc |-> "fetch"]}]

\* loadResource( resource ) up to its first await.  w = [loading, processed].
\* A missing loader throws before fetch is called.
loadResource(w, resource) ==
    IF ~HasLoader(resource.type)
    THEN [w EXCEPT !.processed = Append(w.processed,
             Catch(resource, <<"No loader found for resource type ", resource.type>>))]
    ELSE [w EXCEPT !.loading = w.loading \cup {[res |-> resource, pc |-> "fetch"]}]

\* onMessage whose loop is ended by the missing-loader error of a resource.
RECURSIVE onMessageLoopAbort(_, _, _)
onMessageLoopAbort(data, i, w) ==
    IF i > Len(data) \/ ~HasLoader(data[i].type) THEN w
    ELSE onMessageLoopAbort(data, i + 1, loadResource(w, data[i]))

\* onMessage( msg ): for( const resource of resources ) this.loadResource( resource )
RECURSIVE onMessageLoop(_, _, _)
onMessageLoop(data, i, w) ==
    IF i > Len(data) THEN w
    ELSE onMessageLoop(data, i + 1, loadResource(w, data[i]))

onMessage ==
    /\ toWorker # <<>>
    /\ LET w == onMessageLoop(Head(toWorker), 1,
                              [loading |-> loading, processed |-> processed])
       IN /\ loading' = w.loading
          /\ processed' = w.processed
    /\ toWorker' = Tail(toWorker)
    /\ fx' = [NoFx("onMessage") EXCEPT !.applied = Snapshots(<<[data |-> Head(toWorker)]>>, 1)]
    /\ UNCHANGED <<resources, messages, transferList, toMain,
                   textures, nextTexture, loads>>

\* `await fetch( resource.uri )` resolves with a response of the given status.
\* With status 200 the body is read (`await response.blob()`, which touches no
\* state) and loader.loadAsync is invoked; it suspends at `await
\* uriData.arrayBuffer()`.
FetchResolved(l, status) ==
    /\ l \in loading /\ l.pc = "fetch"
    /\ IF FetchFailed(status)
       THEN /\ loading' = loading \ {l}
            /\ processed' = Append(processed,
                   Catch(l.res, <<"Fetch failed. Result ", ToString(status)>>))
       ELSE /\ loading' = (loading \ {l}) \cup {[l EXCEPT !.pc = "loadAsync"]}
            /\ processed' = processed
    /\ fx' = NoFx("worker")
    /\ UNCHANGED <<resources, messages, toWorker, transferList, toMain,
                   textures, nextTexture, loads>>

\* An async phase that uploads the payload to the device itself.
LoadAsyncResolvedUploads(l) ==
    /\ l \in loading /\ l.pc = "loadAsync"
    /\ LET buf == ArrayBuffer(l.res)
           res == [l.res EXCEPT !.imageBuffer = Some(buf), !.status = LoadingSync]
       IN /\ transferList' = Append(transferList, buf)
          /\ processed' = Append(processed, res)
    /\ loading' = loading \ {l}
    /\ textures' = textures \cup {[id |-> nextTexture, uri |-> l.res.uri]}
    /\ nextTexture' = nextTexture + 1
    /\ fx' = NoFx("worker")
    /\ UNCHANGED <<resources, messages, toWorker, toMain, loads>>

\* TextureLoader.loadAsync completes: res.imageBuffer is set and returned as the
\* only transferable; loadResource appends it, sets LoadingSync and pushes.
LoadAsyncResolved(l) ==
    /\ l \in loading /\ l.pc = "loadAsync"
    /\ LET buf == ArrayBuffer(l.res)
           res == [l.res EXCEPT !.imageBuffer = Some(buf), !.status = LoadingSync]
       IN /\ transferList' = Append(transferList, buf)
          /\ processed' = Append(processed, res)
    /\ loading' = loading \ {l}
    /\ fx' = NoFx("worker")
    /\ UNCHANGED <<resources, messages, toWorker, toMain,
                   textures, nextTexture, loads>>

\* The promise awaited at l.pc rejects (network error, unreadable body): the
\* catch block marks the resource Failed and it is pushed.
AwaitRejected(l) ==
    /\ l \in loading
    /\ loading' = loading \ {l}
    /\ processed' = Append(processed, Catch(l.res, <<"rejected">>))
    /\ fx' = NoFx("worker")
    /\ UNCHANGED <<resources, messages, toWorker, transferList, toMain,
                   textures, nextTexture, loads>>

\* The tick without `this.processed.length = 0`.
workerUpdateKeepsProcessed ==
    /\ IF Len(processed) > 0
       THEN /\ toMain' = Append(toMain, [data |-> processed, transfer |-> transferList])
            /\ transferList' = <<>>
            /\ processed' = processed
       ELSE UNCHANGED <<toMain, transferList, processed>>
    /\ fx' = NoFx("worker")
    /\ UNCHANGED <<resources, messages, toWorker, loading,
                   textures, nextTexture, loads>>

\* The tick without `this.transferList.length = 0`.
workerUpdateKeepsTransferList ==
    /\ IF Len(processed) > 0
       THEN /\ toMain' = Append(toMain, [data |-> processed, transfer |-> transferList])
            /\ transferList' = transferList
            /\ processed' = <<>>
       ELSE UNCHANGED <<toMain, transferList, processed>>
    /\ fx' = NoFx("worker")
    /\ UNCHANGED <<resources, messages, toWorker, loading,
                   textures, nextTexture, loads>>

\* update(), the setInterval tick: flush if anything was processed.
workerUpdate ==
    /\ IF Len(processed) > 0
       THEN /\ toMain' = Append(toMain, [data |-> processed, transfer |-> transferList])
            /\ transferList' = <<>>
            /\ processed' = <<>>
       ELSE UNCHANGED <<toMain, transferList, processed>>
    /\ fx' = NoFx("worker")
    /\ UNCHANGED <<resources, messages, toWorker, loading,
                   textures, nextTexture, loads>>

(***************************************************************************)
(* The system                                                              *)
(***************************************************************************)
Init ==
    /\ resources = <<>>
    /\ messages = <<>>
    /\ toWorker = <<>>
    /\ loading = {}
    /\ processed = <<>>
    /\ transferList = <<>>
    /\ toMain = <<>>
    /\ textures = {}
    /\ nextTexture = 0
    /\ loads = 0
    /\ fx = NoFx("initialize")

Next ==
    \/ \E list \in ListsOf(Descriptors, MaxListLen) : loadResourceList(list)
    \/ \E list \in ListsOf(Uris, MaxListLen) : unloadResourceList(list)
    \/ \E ok \in [Uris -> BOOLEAN] : update(ok)
    \/ onmessage
    \/ \E uri \in Uris, decoded \in BOOLEAN : ImageComplete(uri, decoded)
    \/ onMessage
    \/ \E l \in loading, status \in FetchStatuses : FetchResolved(l, status)
    \/ \E l \in loading : LoadAsyncResolved(l)
    \/ \E l \in loading : AwaitRejected(l)
    \/ workerUpdate

Spec == Init /\ [][Next]_vars

(***************************************************************************)
(* Properties                                                              *)
(***************************************************************************)
\* The status of the registry entry of uri, "absent" when there is none.
StatusOf(reg, uri) == IF Has(reg, uri) THEN Get(reg, uri).status ELSE "absent"
\* Number of occurrences of x in the sequence s.
Count(s, x) == Cardinality({i \in 1..Len(s) : s[i] = x})
\* The uris of the snapshots buffered in messages.
BufferedUris == {Snapshots(messages, 1)[k].uri : k \in 1..Len(Snapshots(messages, 1))}

\* The directed edges of the resource state machine.
StatusEdges ==
    {<<Initializing, LoadingAsync>>, <<LoadingAsync, LoadingSync>>,
     <<LoadingSync, Loaded>>, <<LoadingSync, Failed>>, <<LoadingAsync, Failed>>}
    \cup {<<s, Unloaded>> : s \in ResourceStatus}
    \cup {<<"absent", Initializing>>, <<Unloaded, "absent">>}

\* C1: every change of the status held in the registry for a uri follows an
\* edge of Initializing -> LoadingAsync -> LoadingSync -> Loaded | Failed,
\* LoadingAsync -> Failed, any -> Unloaded -> removed: Loaded and Failed never
\* regress, Unloaded never becomes anything else, LoadingAsync is never skipped.
C1_StatusFollowsEdges ==
    [][\A u \in Uris :
          \/ StatusOf(resources', u) = StatusOf(resources, u)
          \/ <<StatusOf(resources, u), StatusOf(resources', u)>> \in StatusEdges]_vars

\* C2: once a registered resource is marked Unloaded, the next update() invokes
\* its loader's unload phase exactly once and deletes the uri from the
\* registry, also when a worker reply for the uri is buffered or in flight.
C2_UnloadedRemovedByNextUpdate ==
    [][\A u \in Uris :
          (StatusOf(resources, u) = Unloaded /\ fx'.op = "update")
          => (Count(fx'.unloads, u) = 1 /\ ~Has(resources', u))]_vars

\* C3: no resource-local failure is fatal to the registry: every update()
\* completes its pass, whatever the status and type of the registered
\* resources; every resource gets its transition attempt (none is left
\* Initializing or Unloaded) and the batch collected in the call is posted.
C3_UpdateCompletesItsPass ==
    [][fx'.op = "update"
       => /\ ~defined(fx'.error)
          /\ \A i \in 1..Len(resources') :
                resources'[i].status \notin {Initializing, Unloaded}
          /\ \A i \in 1..Len(resources') :
                (/\ resources'[i].status = LoadingAsync
                 /\ StatusOf(resources, resources'[i].uri) = Initializing
                 /\ resources'[i].uri \notin BufferedUris)
                => Count(fx'.posted, resources'[i].uri) = 1]_vars

\* C4: registry entries are created only by loadResourceList; applying a
\* worker reply never adds a uri that is not currently registered.
C4_OnlyLoadResourceListAdds ==
    [][\A u \in Uris :
          (~Has(resources, u) /\ Has(resources', u)) => fx'.op = "loadResourceList"]_vars

\* C5: loadResourceList raises an assertion error when a listed uri is already
\* present in the registry, whatever the status of the existing entry; a uri
\* that is absent is registered with status Initializing.
C5_LoadAssertsOnPresentUri ==
    \A list \in ListsOf(Descriptors, MaxListLen) :
        LET st == LoadLoop(list, 1, [resources |-> resources, loads |-> loads,
                                     error |-> None])
            Present(i) == \/ Has(resources, list[i].uri)
                          \/ \E j \in 1..(i - 1) : list[j].uri = list[i].uri
        IN /\ defined(st.error) <=> \E i \in 1..Len(list) : Present(i)
           /\ \A i \in 1..Len(list) :
                 (\A j \in 1..i : ~Present(j))
                 => /\ StatusOf(st.resources, list[i].uri) = Initializing
                    /\ Get(st.resources, list[i].uri).type = list[i].type
           /\ \A i \in 1..Len(list) :
                 (Present(i) /\ \A j \in 1..(i - 1) : ~Present(j))
                 => st.error = Some(<<"Assert fail: ", "Attempt to re-load resource: ",
                                      list[i].uri>>)

\* C5 witness: loadResourceList has just raised on a uri whose entry is
\* Unloaded but not yet removed.
C5_Witness ==
    /\ fx.op = "loadResourceList"
    /\ defined(fx.error)
    /\ StatusOf(resources, fx.error[1][3]) = Unloaded

\* C6: unloadResourceList raises during the call when a listed uri is not
\* registered; for a registered uri it only sets the status to Unloaded: the
\* entry stays in the registry and no unload phase runs before update().
C6_UnloadOnlyMarks ==
    /\ [](\A list \in ListsOf(Uris, MaxListLen) :
            LET st == UnloadLoop(list, 1, [resources |-> resources, error |-> None])
                Unknown(i) == ~Has(resources, list[i])
            IN /\ defined(st.error) <=> \E i \in 1..Len(list) : Unknown(i)
               /\ \A i \in 1..Len(list) :
                     (\A j \in 1..i : ~Unknown(j))
                     => Get(st.resources, list[i]) = MarkUnloaded(Get(resources, list[i]))
               /\ \A i \in 1..Len(list) :
                     (Unknown(i) /\ \A j \in 1..(i - 1) : ~Unknown(j))
                     => st.error = Some(<<"Attempt to unload unknown resource: ", list[i]>>))
    /\ [][fx'.op = "unloadResourceList"
          => /\ UrisOf(resources') = UrisOf(resources)
             /\ \A u \in UrisOf(resources) :
                   \/ Get(resources', u) = Get(resources, u)
                   \/ Get(resources', u) = MarkUnloaded(Get(resources, u))
             /\ fx'.unloads = <<>> /\ fx'.removes = <<>>
             /\ textures' = textures]_vars

\* C6 witness: unloadResourceList has just marked a Loaded texture Unloaded;
\* the entry is still registered and its texture still lives on the device.
C6_Witness ==
    /\ fx.op = "unloadResourceList"
    /\ ~defined(fx.error)
    /\ \E i \in 1..Len(resources) :
          /\ resources[i].status = Unloaded
          /\ defined(resources[i].texture)
          /\ \E t \in textures : t.id = resources[i].texture[1]

\* C7: when a Loaded Texture has been passed to unloadResourceList (once or
\* more), the next update() invokes removeTexture exactly once, with the
\* handle createTexture returned for it, and the uri is then absent.
C7_LoadedTextureRemovedOnce ==
    [][\A u \in Uris :
          (/\ StatusOf(resources, u) = Unloaded
           /\ defined(Get(resources, u).texture)
           /\ \E t \in textures : t.id = Get(resources, u).texture[1] /\ t.uri = u
           /\ fx'.op = "update")
          => /\ Count(fx'.removes, Get(resources, u).texture[1]) = 1
             /\ ~Has(resources', u)]_vars

\* C8: a resource whose type has no loader is marked Failed by the worker with
\* a message naming the type, without a fetch being started; it is in the next
\* flush; every other resource of the batch is still fetched.
C8_UnknownTypeFailsAlone ==
    /\ [][Len(toWorker') < Len(toWorker)
          => \A k \in 1..Len(Head(toWorker)) :
                LET r == Head(toWorker)[k]
                IN IF HasLoader(r.type)
                   THEN [res |-> r, pc |-> "fetch"] \in loading'
                   ELSE /\ \E j \in (Len(processed) + 1)..Len(processed') :
                              processed'[j] =
                                  [r EXCEPT !.status = Failed,
                                            !.error = Some(<<"No loader found for resource type ",
                                                             r.type>>)]
                        /\ \A l \in loading' : l.res.reg # r.reg]_vars
    /\ [][Len(toMain') > Len(toMain)
          => /\ toMain'[Len(toMain')].data = processed
             /\ processed' = <<>>]_vars

\* C8 witness: the worker has just received a batch of two; the one without a
\* loader is Failed in processed, the other is being fetched.
C8_Witness ==
    /\ fx.op = "onMessage"
    /\ Len(fx.applied) = 2
    /\ \E j \in 1..Len(processed), l \in loading :
          /\ processed[j].status = Failed
          /\ ~HasLoader(processed[j].type)
          /\ l.pc = "fetch"
          /\ {processed[j].reg, l.res.reg} = {fx.applied[1].reg, fx.applied[2].reg}

\* C9: a resource whose fetch returned 404 is Failed with an error containing
\* the status code and stays registered and Failed: no update() removes it or
\* changes its status until the caller unloads it.
C9_FailedStaysFailed ==
    [][\A u \in Uris :
          (/\ StatusOf(resources, u) = Failed
           /\ Get(resources, u).error = Some(<<"Fetch failed. Result ", ToString(404)>>)
           /\ fx'.op = "update")
          => StatusOf(resources', u) = Failed]_vars

\* The transient forms and the device texture of a resource are its own.
OwnData(r) ==
    /\ defined(r.imageBuffer) => r.imageBuffer[1].uri = r.uri
    /\ defined(r.imageElement) => r.imageElement[1].src.uri = r.uri
    /\ r.status = Loaded
       => /\ \E t \in textures : t.id = r.texture[1] /\ t.uri = r.uri
          /\ r.width[1] \in {0, ImageSize([uri |-> r.uri]).width}
          /\ r.height[1] \in {0, ImageSize([uri |-> r.uri]).height}

\* C10: replies may arrive in any order and grouping: applying the buffered
\* replies changes only the entries of the uris replied for, and every entry
\* holds only its own transient forms and, once Loaded, its own texture.
C10_RepliesAreIsolated ==
    LET applied == ApplyMessages(resources, messages, 1)
    IN /\ \A u \in UrisOf(resources) \ BufferedUris :
             Has(applied, u) /\ Get(applied, u) = Get(resources, u)
       /\ \A i \in 1..Len(resources) : OwnData(resources[i])

\* C10 witness: two textures, both Loaded, the one registered later having been
\* uploaded first.
C10_Witness ==
    /\ Len(resources) = 2
    /\ \A i \in 1..2 : resources[i].status = Loaded
    /\ resources[1].reg < resources[2].reg
    /\ resources[1].texture[1] > resources[2].texture[1]
    /\ resources[1].width # resources[2].width

\* The buffers held by the snapshots of data, in order.
BuffersOf(data) ==
    LET withBuffer == SelectSeq(data, LAMBDA r : defined(r.imageBuffer))
    IN [k \in 1..Len(withBuffer) |-> withBuffer[k].imageBuffer[1]]
\* The transfer lists of the messages msgs, concatenated.
RECURSIVE Transfers(_, _)
Transfers(msgs, i) ==
    IF i > Len(msgs) THEN <<>> ELSE msgs[i].transfer \o Transfers(msgs, i + 1)
\* Every buffer that is listed for transfer or was transferred and not yet applied.
ListedBuffers == transferList \o Transfers(toMain \o messages, 1)
\* The loads the worker has been asked for and has not finished.
PendingLoads ==
    {[uri |-> l.res.uri, reg |-> l.res.reg] : l \in loading}
    \cup UNION {{[uri |-> toWorker[i][k].uri, reg |-> toWorker[i][k].reg] :
                    k \in 1..Len(toWorker[i])} : i \in 1..Len(toWorker)}

\* C11: the buffer returned by a resource's async phase is listed for transfer
\* together with the resource's snapshot, and the tick sends both in the same
\* reply: every reply transfers exactly the buffers of its own snapshots, no
\* buffer is listed twice or again by a load still pending, and the flush
\* leaves nothing behind, in any order of completion.
C11_TransferablesRoundTrip ==
    /\ [](/\ transferList = BuffersOf(processed)
          /\ \A i \in 1..Len(toMain) : toMain[i].transfer = BuffersOf(toMain[i].data)
          /\ \A i \in 1..Len(messages) : messages[i].transfer = BuffersOf(messages[i].data)
          /\ Cardinality({ListedBuffers[k] : k \in 1..Len(ListedBuffers)}) = Len(ListedBuffers)
          /\ \A k \in 1..Len(ListedBuffers) : ListedBuffers[k] \notin PendingLoads)
    /\ [][\A l \in loading :
            (l.pc = "loadAsync" /\ l \notin loading' /\ processed' # <<>>
             /\ processed'[Len(processed')].status = LoadingSync)
            => /\ processed'[Len(processed')].imageBuffer = Some(ArrayBuffer(l.res))
               /\ transferList' = Append(transferList, ArrayBuffer(l.res))]_vars
    /\ [][Len(toMain') > Len(toMain)
          => /\ toMain' = Append(toMain, [data |-> processed, transfer |-> transferList])
             /\ transferList' = <<>> /\ processed' = <<>>]_vars

\* C11 witness: an undelivered reply transfers the buffers of two textures of
\* which the one registered later finished its async phase first.
C11_Witness ==
    \E i \in 1..Len(toMain) :
        /\ Len(toMain[i].transfer) = 2
        /\ Len(toMain[i].data) = 2
        /\ toMain[i].data[1].reg > toMain[i].data[2].reg

\* The createTexture calls recorded in creates that were made for uri.
CreatesFor(creates, uri) == SelectSeq(creates, LAMBDA t : t.uri = uri)
\* The buffers held as imageBuffer by the entries of the registry reg.
BuffersHeld(reg) ==
    {reg[i].imageBuffer[1] : i \in {j \in 1..Len(reg) : defined(reg[j].imageBuffer)}}

\* C12: when update() runs the sync phase on a Texture in LoadingSync, a call
\* that finds imageBuffer creates one Image element from it and consumes the
\* buffer, a call that finds the element creates none and, while not done,
\* leaves that same element in place; createTexture is called in no call that
\* leaves the status LoadingSync and exactly once in the call that makes it
\* Loaded, after which the sync phase is not run on the entry.  A buffer that
\* has become an element is held or listed nowhere, so no second element can
\* be created from it.
C12_SyncPhaseIdempotent ==
    /\ [](\A i \in 1..Len(resources) :
             defined(resources[i].imageElement)
             => /\ ~defined(resources[i].imageBuffer)
                /\ resources[i].imageElement[1].src \notin BuffersHeld(resources)
                /\ Count(ListedBuffers, resources[i].imageElement[1].src) = 0)
    /\ [][fx'.op = "update" =>
          LET applied == ApplyMessages(resources, messages, 1)
          IN \A i \in 1..Len(applied) :
               LET r == applied[i]
                   u == r.uri
               IN /\ (r.status = Loaded) => Count(fx'.syncs, u) = 0
                  /\ (r.status = LoadingSync /\ r.type = "Texture" /\ Count(fx'.syncs, u) > 0)
                     => /\ Has(resources', u)
                        /\ defined(r.imageBuffer)
                           => /\ Count(fx'.images, r.imageBuffer[1]) = 1
                              /\ r.imageBuffer[1] \notin BuffersHeld(resources')
                              /\ Get(resources', u).imageElement = Some(Image(r.imageBuffer[1]))
                        /\ defined(r.imageElement)
                           => /\ Count(fx'.images, r.imageElement[1].src) = 0
                              /\ Get(resources', u).status = LoadingSync
                                 => Get(resources', u).imageElement = r.imageElement
                        /\ Get(resources', u).status = LoadingSync
                           => CreatesFor(fx'.creates, u) = <<>>
                        /\ Get(resources', u).status = Loaded
                           <=> Len(CreatesFor(fx'.creates, u)) = 1
                        /\ Len(CreatesFor(fx'.creates, u)) <= 1]_vars

\* C12 witness: an update() has polled the element of a texture a further time,
\* creating neither an element nor a texture, and the texture is still
\* LoadingSync with its element undecoded.
C12_Witness ==
    /\ fx.op = "update"
    /\ Len(fx.syncs) = 1 /\ fx.images = <<>> /\ fx.creates = <<>>
    /\ StatusOf(resources, fx.syncs[1]) = LoadingSync
    /\ defined(Get(resources, fx.syncs[1]).imageElement)
    /\ ~Get(resources, fx.syncs[1]).imageElement[1].complete

\* C13: a Texture that is Loaded in the registry holds the handle of a live
\* device texture created for its uri, holds none of imageBuffer, imageBitmap,
\* imageElement, and its width and height are those of the element that the
\* update() making it Loaded uploaded.
C13_LoadedTextureHoldsOnlyHandle ==
    /\ [](\A i \in 1..Len(resources) :
             (resources[i].status = Loaded /\ resources[i].type = "Texture")
             => /\ defined(resources[i].texture)
                /\ [id |-> resources[i].texture[1], uri |-> resources[i].uri] \in textures
                /\ resources[i].texture[1] \in 0..(nextTexture - 1)
                /\ defined(resources[i].width) /\ defined(resources[i].height)
                /\ ~defined(resources[i].imageBuffer)
                /\ ~defined(resources[i].imageBitmap)
                /\ ~defined(resources[i].imageElement))
    /\ [][fx'.op = "update" =>
          LET applied == ApplyMessages(resources, messages, 1)
          IN \A u \in Uris :
               (StatusOf(applied, u) # Loaded /\ StatusOf(resources', u) = Loaded)
               => /\ defined(Get(applied, u).imageElement)
                  /\ Get(applied, u).imageElement[1].complete
                  /\ Get(resources', u).width = Some(Get(applied, u).imageElement[1].width)
                  /\ Get(resources', u).height = Some(Get(applied, u).imageElement[1].height)
                  /\ Get(resources', u).texture[1] \notin {t.id : t \in textures}]_vars

\* C13 witness: a.png is Loaded with the size of its decoded image and a live
\* texture, while b.png still holds an element.
C13_Witness ==
    /\ StatusOf(resources, "a.png") = Loaded
    /\ Get(resources, "a.png").width = Some(ImageSize([uri |-> "a.png"]).width)
    /\ Get(resources, "a.png").height = Some(ImageSize([uri |-> "a.png"]).height)
    /\ \E t \in textures : t.uri = "a.png" /\ t.id = Get(resources, "a.png").texture[1]
    /\ StatusOf(resources, "b.png") = LoadingSync
    /\ defined(Get(resources, "b.png").imageElement)

\* The resource whose loads are taken to complete; the fetches of the other
\* uri may hang forever.
FairUri == "b.png"

\* Scheduling: the caller runs update() every frame, the worker's interval
\* timer keeps firing, the event loops of both contexts deliver every posted
\* message, the platform finishes decoding, and the fetch and the async phase
\* of FairUri complete.
Fairness ==
    /\ WF_vars(\E ok \in [Uris -> BOOLEAN] : update(ok))
    /\ WF_vars(onmessage)
    /\ WF_vars(onMessage)
    /\ WF_vars(workerUpdate)
    /\ WF_vars(\E decoded \in BOOLEAN : ImageComplete(FairUri, decoded))
    /\ WF_vars(\E l \in loading, status \in FetchStatuses :
                  l.res.uri = FairUri /\ FetchResolved(l, status))
    /\ WF_vars(\E l \in loading : l.res.uri = FairUri /\ LoadAsyncResolved(l))

FairSpec == Spec /\ Fairness

\* C14: under fair scheduling, an entry in LoadingAsync whose fetch is still
\* pending stays LoadingAsync unless it is unloaded, update() can always run,
\* and a registered resource whose fetch completes goes on to Loaded or
\* Failed unless it is unloaded, whatever happens to the other resources.
C14_HungFetchStallsOnlyItself ==
    /\ [][\A l \in loading :
            (/\ l.pc = "fetch" /\ l \in loading'
             /\ Has(resources, l.res.uri)
             /\ Get(resources, l.res.uri).reg = l.res.reg
             /\ Get(resources, l.res.uri).status = LoadingAsync
             /\ fx'.op # "unloadResourceList")
            => StatusOf(resources', l.res.uri) = LoadingAsync]_vars
    /\ [](ENABLED (\E ok \in [Uris -> BOOLEAN] : update(ok)))
    /\ (StatusOf(resources, FairUri) \in {Initializing, LoadingAsync, LoadingSync})
       ~> (StatusOf(resources, FairUri) \in {Loaded, Failed, Unloaded, "absent"})

\* C15: the device is touched only by update(): every step that creates or
\* removes a device texture is a step of ResourceManager.update(); no step of
\* the worker (onMessage, the continuations of loadResource, the tick) and no
\* other step of the main context changes the device, however the two
\* contexts interleave.
C15_DeviceTouchedOnlyByUpdate ==
    [][(\/ textures' # textures
        \/ nextTexture' # nextTexture
        \/ fx'.creates # <<>>
        \/ fx'.removes # <<>>)
       => fx'.op = "update"]_vars

\* C15 witness: update() has just created a texture while the worker still
\* has a load in flight.
C15_Witness ==
    /\ fx.op = "update"
    /\ fx.creates # <<>>
    /\ \E t \in textures : t = fx.creates[1]
    /\ loading # {}

\* The uri and status of every registry entry, in the order of the map.
Statuses(reg) == [i \in 1..Len(reg) |-> [uri |-> reg[i].uri, status |-> reg[i].status]]
\* The snapshots carried by the messages msgs, in arrival order.
RECURSIVE Replies(_, _)
Replies(msgs, i) ==
    IF i > Len(msgs) THEN <<>> ELSE msgs[i].data \o Replies(msgs, i + 1)
\* The snapshot of uri that arrived last among the buffered replies.
LastReply(uri) ==
    LET all == Replies(messages, 1)
        k == CHOOSE j \in 1..Len(all) :
                 all[j].uri = uri /\ \A n \in (j + 1)..Len(all) : all[n].uri # uri
    IN all[k]

\* C16: the keys and statuses of the registry change only in steps of
\* loadResourceList, unloadResourceList and update(); the message callback
\* appends the event to the buffer and changes nothing else on the main side;
\* update() applies every buffered reply, a later snapshot of a uri replacing
\* an earlier one, before its loop runs on the result, and empties the buffer.
C16_RegistryChangesOnlyInItsOperations ==
    /\ [][Statuses(resources') # Statuses(resources)
          => fx'.op \in {"loadResourceList", "unloadResourceList", "update"}]_vars
    /\ [][fx'.op = "onmessage"
          => /\ messages' = Append(messages, Head(toMain))
             /\ UNCHANGED <<resources, textures, nextTexture, toWorker>>]_vars
    /\ [][fx'.op = "update"
          => /\ messages' = <<>>
             /\ fx'.applied = Snapshots(messages, 1)
             /\ \A u \in BufferedUris :
                   /\ Has(resources', u)
                   /\ Get(resources', u).reg = LastReply(u).reg
                   /\ LastReply(u).status = Failed => Get(resources', u) = LastReply(u)
                   /\ (LastReply(u).status = LoadingSync /\ ~defined(fx'.error))
                      => Count(fx'.syncs, u) = 1]_vars

\* C16 witness: an update() has applied two buffered replies for the same uri,
\* from two registrations, and emptied the buffer.
C16_Witness ==
    /\ fx.op = "update"
    /\ messages = <<>>
    /\ Len(fx.applied) = 2
    /\ fx.applied[1].uri = fx.applied[2].uri
    /\ fx.applied[1].reg # fx.applied[2].reg
    /\ StatusOf(resources, fx.applied[2].uri) # "absent"
    /\ Get(resources, fx.applied[2].uri).reg = fx.applied[2].reg

\* The uri and registration of a resource object.
Id(r) == [uri |-> r.uri, reg |-> r.reg]
\* Every load the worker was asked for whose reply update() has not applied:
\* requested, in flight, processed, or replied and not yet applied.
OutstandingLoads ==
    LET requested == Replies([i \in 1..Len(toWorker) |-> [data |-> toWorker[i]]], 1)
        replied == processed \o Replies(toMain \o messages, 1)
    IN [k \in 1..Len(requested) |-> Id(requested[k])]
       \o [k \in 1..Len(replied) |-> Id(replied[k])]

\* C17: every resource that update() takes from Initializing to LoadingAsync
\* is in the batch that this update() posts to the worker, once; no
\* registration is outstanding twice; and every registry entry in
\* LoadingAsync has its load outstanding.
C17_LoadingAsyncIsOutstanding ==
    /\ [][fx'.op = "update" =>
          LET applied == ApplyMessages(resources, messages, 1)
          IN \A u \in Uris :
               (StatusOf(applied, u) = Initializing /\ StatusOf(resources', u) = LoadingAsync)
               => /\ Count(fx'.posted, u) = 1
                  /\ Len(toWorker') = Len(toWorker) + 1
                  /\ \E k \in 1..Len(toWorker'[Len(toWorker')]) :
                        Id(toWorker'[Len(toWorker')][k]) = Id(Get(resources', u))]_vars
    /\ [](/\ \A k \in 1..Len(OutstandingLoads) :
                Count(OutstandingLoads, OutstandingLoads[k]) = 1
                /\ \A l \in loading : Id(l.res) # OutstandingLoads[k]
          /\ \A i \in 1..Len(resources) :
                resources[i].status = LoadingAsync
                => \/ Count(OutstandingLoads, Id(resources[i])) = 1
                   \/ \E l \in loading : Id(l.res) = Id(resources[i]))

\* The processing loop gets as far as position i of the values it iterates:
\* no earlier value makes an iteration throw.
Reached(values, i) ==
    \A j \in 1..(i - 1) : ~(values[j].status = Unloaded /\ ~HasLoader(values[j].type))

\* C18: in each update() the sync phase runs exactly once on every resource
\* that is LoadingSync when the loop reaches it and on no other resource; the
\* status then stays LoadingSync (to be run again by the next update()) unless
\* the phase throws, or becomes Loaded exactly when the phase returns true
\* after its upload; and once a uri is Loaded no update() runs the sync phase
\* for it again.
C18_SyncPhaseOncePerUpdate ==
    /\ [][fx'.op = "update" =>
          LET applied == ApplyMessages(resources, messages, 1)
          IN \A i \in 1..Len(applied) :
               LET r == applied[i]
                   u == r.uri
               IN /\ (r.status = LoadingSync /\ Reached(applied, i))
                     => /\ Count(fx'.syncs, u) = 1
                        /\ StatusOf(resources', u) \in {LoadingSync, Loaded, Failed}
                        /\ StatusOf(resources', u) = Loaded
                           <=> Len(CreatesFor(fx'.creates, u)) = 1
                  /\ r.status # LoadingSync => Count(fx'.syncs, u) = 0]_vars
    /\ [][\A u \in Uris :
            (StatusOf(resources, u) = Loaded /\ fx'.op = "update")
            => Count(fx'.syncs, u) = 0]_vars

FailureRecorded(r) ==
    /\ defined(r.error)
    /\ IF HasLoader(r.type)
       THEN r.error[1] \in {<<"createTexture failed: ", r.uri>>, <<"rejected">>}
                           \cup {<<"Fetch failed. Result ", ToString(s)>> :
                                   s \in {t \in FetchStatuses : FetchFailed(t)}}
       ELSE r.error[1] = <<"No loader found for resource type ", r.type>>

\* C20: a resource that is Failed, in the registry or in a reply of the worker
\* processed, sent or buffered, holds the message of its failure, and a
\* resource that is not Failed holds none; and no update() changes or removes
\* a Failed entry of the registry.
C20_FailedKeepsItsError ==
    /\ [](LET snapshots == resources \o processed \o Replies(toMain \o messages, 1)
          IN \A k \in 1..Len(snapshots) :
               IF snapshots[k].status = Failed
               THEN FailureRecorded(snapshots[k])
               ELSE snapshots[k].status # Unloaded => ~defined(snapshots[k].error))
    /\ [][\A u \in Uris :
            (StatusOf(resources, u) = Failed /\ fx'.op = "update")
            => Has(resources', u) /\ Get(resources', u) = Get(resources, u)]_vars

\* Every resource object there is: the registry's entries, the requests on
\* their way to the worker, the worker's loads in flight and processed list,
\* and the replies sent or buffered.
AllResources ==
    LET seqs == resources \o processed \o Replies(toMain \o messages, 1)
                \o Replies([i \in 1..Len(toWorker) |-> [data |-> toWorker[i]]], 1)
    IN {seqs[k] : k \in 1..Len(seqs)} \cup {l.res : l \in loading}
\* The transient form fields of r that are populated.
FormsOf(r) ==
    {f \in {"imageBuffer", "imageBitmap", "imageElement"} : defined(r[f])}

\* C21: every resource object, in the registry, in the worker or in a message,
\* has at most one of imageBuffer, imageBitmap, imageElement populated, in
\* every state, also after the first sync call turned the buffer into an
\* element and after a sync phase that threw.
C21_AtMostOneTransientForm ==
    \A r \in AllResources : Cardinality(FormsOf(r)) <= 1

\* C21 witness: a texture whose sync phase threw is Failed and holds its
\* element only, while another texture holds its buffer only.
C21_Witness ==
    \E i \in 1..Len(resources) :
        /\ resources[i].status = Failed
        /\ FormsOf(resources[i]) = {"imageElement"}
        /\ resources[i].error = Some(<<"createTexture failed: ", resources[i].uri>>)
        /\ \E r \in AllResources : r.uri # resources[i].uri /\ FormsOf(r) = {"imageBuffer"}

\* The resources the worker holds: in flight, then processed.
HeldByWorker ==
    {Id(l.res) : l \in loading} \cup {Id(processed[k]) : k \in 1..Len(processed)}
\* The resources of the replies sent and not yet applied, in order.
Replied ==
    LET all == Replies(toMain \o messages, 1) IN [k \in 1..Len(all) |-> Id(all[k])]

\* C22: a worker step that completes no load is the tick: with a non-empty
\* processed list it sends one reply holding the whole list and leaves the
\* processed list and the transfer list empty, with an empty one it sends
\* nothing; a load that completes or fails is appended to the processed list,
\* so it leaves with the next tick; and no resource is in two replies, twice
\* in the worker, or still held by the worker once it is in a reply.
C22_WorkerRelinquishesAtNextFlush ==
    /\ [][(fx'.op = "worker" /\ loading' = loading)
          => IF processed = <<>>
             THEN UNCHANGED <<toMain, processed, transferList>>
             ELSE /\ toMain' = Append(toMain, [data |-> processed, transfer |-> transferList])
                  /\ processed' = <<>>
                  /\ transferList' = <<>>]_vars
    /\ [][\A l \in loading :
            l.res.reg \notin {m.res.reg : m \in loading'}
            => /\ Len(processed') = Len(processed) + 1
               /\ Id(processed'[Len(processed')]) = Id(l.res)
               /\ UNCHANGED toMain]_vars
    /\ [](/\ \A k \in 1..Len(Replied) :
                Count(Replied, Replied[k]) = 1 /\ Replied[k] \notin HeldByWorker
          /\ \A k \in 1..Len(processed) :
                /\ Cardinality({j \in 1..Len(processed) : Id(processed[j]) = Id(processed[k])}) = 1
                /\ \A l \in loading : Id(l.res) # Id(processed[k])
          /\ \A l, m \in loading : Id(l.res) = Id(m.res) => l = m)

\* C22 witness: a reply holding one resource of a batch has been sent, the
\* worker's lists are empty, and the other resource of the batch is in flight.
C22_Witness ==
    /\ fx.op = "worker"
    /\ Len(toMain) = 1 /\ Len(toMain[1].data) = 1
    /\ processed = <<>> /\ transferList = <<>>
    /\ \E l \in loading : l.res.uri # toMain[1].data[1].uri

\* C23: the phases of a registered resource run in order.  The worker is
\* handed only resources the registry has set to LoadingAsync, and runs the
\* async phase of a registration at most once; update() runs the sync phase
\* for a uri only if its entry was already LoadingSync or the reply for the
\* entry's own registration is applied in this call, so never for an entry
\* that is Initializing or LoadingAsync with its async phase unfinished, and
\* never for a uri that was not registered.
C23_PhasesInOrder ==
    /\ [](/\ \A l \in loading : l.res.status = LoadingAsync
          /\ \A i \in 1..Len(toWorker) : \A k \in 1..Len(toWorker[i]) :
                toWorker[i][k].status = LoadingAsync
          /\ \A l, m \in loading : Id(l.res) = Id(m.res) => l = m
          /\ \A k \in 1..Len(OutstandingLoads) :
                /\ Count(OutstandingLoads, OutstandingLoads[k]) = 1
                /\ \A l \in loading : Id(l.res) # OutstandingLoads[k])
    /\ [][fx'.op = "update" =>
          \A k \in 1..Len(fx'.syncs) :
              LET u == fx'.syncs[k]
              IN /\ Has(resources, u)
                 /\ \/ Get(resources, u).status = LoadingSync
                    \/ Count(fx'.applied, Id(Get(resources, u))) = 1]_vars

\* C24: an update() that applies no buffered reply for the uri of an entry
\* that is LoadingAsync, Loaded or Failed leaves that entry as it was, with
\* its status, error, transient forms and handle, invokes no loader phase for
\* it, does not post it to the worker, and leaves the device texture of a
\* Loaded entry in place, also when the loop throws on another entry.
C24_InertEntriesUntouched ==
    [][fx'.op = "update" =>
        \A u \in UrisOf(resources) \ BufferedUris :
            Get(resources, u).status \in {LoadingAsync, Loaded, Failed}
            => /\ Has(resources', u)
               /\ Get(resources', u) = Get(resources, u)
               /\ Count(fx'.syncs, u) = 0
               /\ Count(fx'.unloads, u) = 0
               /\ Count(fx'.posted, u) = 0
               /\ CreatesFor(fx'.creates, u) = <<>>
               /\ Get(resources, u).status = Loaded
                  => /\ Count(fx'.removes, Get(resources, u).texture[1]) = 0
                     /\ [id |-> Get(resources, u).texture[1], uri |-> u] \in textures']_vars

\* C24 witness: an update() has run the sync phase for one uri and uploaded
\* its texture while the other uri, whose load is in flight in the worker, is
\* LoadingAsync as before.
C24_Witness ==
    /\ fx.op = "update"
    /\ fx.applied = <<>>
    /\ Len(fx.syncs) = 1 /\ Len(fx.creates) = 1
    /\ \E l \in loading :
          /\ l.res.uri # fx.syncs[1]
          /\ StatusOf(resources, l.res.uri) = LoadingAsync
          /\ Get(resources, l.res.uri).reg = l.res.reg

\* An HTTP success status.
Is2xx(status) == status \in 200..299

\* C25: the worker marks a resource Failed for its fetch result only when the
\* response status is not a 2xx status: a step that takes a load waiting for
\* its fetch to the processed list with the error of a response status has a
\* status outside 200..299.
C25_FetchFailsOnlyOutside2xx ==
    [][\A l \in loading, status \in FetchStatuses :
          (/\ l.pc = "fetch" /\ l \notin loading'
           /\ processed' = Append(processed,
                  Catch(l.res, <<"Fetch failed. Result ", ToString(status)>>)))
          => ~Is2xx(status)]_vars

\* C26: everything the worker has processed or sent is data with status
\* LoadingSync or Failed, a Failed one carrying its message; and every load
\* that ends, by a failed lookup, a response, a rejected promise or a finished
\* async phase, ends in the processed list with one of the two statuses.
C26_WorkerFailuresAreData ==
    /\ [](LET sent == processed \o Replies(toMain \o messages, 1)
          IN \A k \in 1..Len(sent) :
               /\ sent[k].status \in {LoadingSync, Failed}
               /\ sent[k].status = Failed <=> defined(sent[k].error)
               /\ sent[k].status = LoadingSync <=> defined(sent[k].imageBuffer))
    /\ [][\A l \in loading :
            l.res.reg \notin {m.res.reg : m \in loading'}
            => /\ Len(processed') = Len(processed) + 1
               /\ processed'[Len(processed')].uri = l.res.uri
               /\ processed'[Len(processed')].status \in {LoadingSync, Failed}]_vars
    /\ [][fx'.op = "onMessage" =>
          LET batch == Head(toWorker)
          IN \A k \in 1..Len(batch) :
               \/ \E l \in loading' \ loading : Id(l.res) = Id(batch[k])
               \/ \E j \in (Len(processed) + 1)..Len(processed') :
                     /\ Id(processed'[j]) = Id(batch[k])
                     /\ processed'[j].status = Failed]_vars

\* C26 witness: one reply carries a texture whose awaited promise rejected,
\* Failed with the message, next to a texture that is LoadingSync.
C26_Witness ==
    \E i \in 1..Len(toMain) : \E j, k \in 1..Len(toMain[i].data) :
        /\ toMain[i].data[j].status = Failed
        /\ toMain[i].data[j].error = Some(<<"rejected">>)
        /\ toMain[i].data[k].status = LoadingSync

\* C27: a load is in flight only for a type that has a loader; a load is in
\* its async phase only by a step from waiting for its fetch that marks
\* nothing Failed; a resource that becomes Failed in the worker was never in
\* its async phase unless that phase itself rejected, holds no buffer, and
\* leaves the transfer list as it was; only the end of an async phase adds
\* to the transfer list.
C27_AsyncPhaseOnlyAfterLookupAndFetch ==
    /\ [](\A l \in loading : HasLoader(l.res.type) /\ ~defined(l.res.imageBuffer))
    /\ [][\A l \in loading' :
            (l.pc = "loadAsync" /\ l \notin loading)
            => /\ [l EXCEPT !.pc = "fetch"] \in loading
               /\ UNCHANGED <<processed, transferList>>]_vars
    /\ [][\A j \in (Len(processed) + 1)..Len(processed') :
            processed'[j].status = Failed
            => /\ ~defined(processed'[j].imageBuffer)
               /\ transferList' = transferList
               /\ processed'[j].error # Some(<<"rejected">>)
                  => \A l \in loading : Id(l.res) = Id(processed'[j]) => l.pc = "fetch"]_vars
    /\ [][Len(transferList') > Len(transferList)
          => \E l \in loading \ loading' :
                /\ l.pc = "loadAsync"
                /\ transferList' = Append(transferList, ArrayBuffer(l.res))]_vars

\* C27 witness: a texture whose fetch returned 404 is processed as Failed with
\* the transfer list empty, while the other texture is in its async phase.
C27_Witness ==
    /\ Len(processed) = 1
    /\ processed[1].error = Some(<<"Fetch failed. Result ", ToString(404)>>)
    /\ transferList = <<>>
    /\ \E l \in loading : l.pc = "loadAsync"

\* C28: no message in flight or buffered, in either direction, is empty; the
\* worker sends a reply only in a step that starts with a non-empty processed
\* list; and update() posts at most one batch, only when a resource left
\* Initializing in that call, the batch holding exactly those resources.
C28_NoEmptyMessage ==
    /\ [](/\ \A i \in 1..Len(toWorker) : toWorker[i] # <<>>
          /\ \A i \in 1..Len(toMain) : toMain[i].data # <<>>
          /\ \A i \in 1..Len(messages) : messages[i].data # <<>>)
    /\ [][Len(toMain') > Len(toMain) => (fx'.op = "worker" /\ processed # <<>>)]_vars
    /\ [][Len(toWorker') > Len(toWorker) =>
          LET applied == ApplyMessages(resources, messages, 1)
              left == {u \in Uris : /\ StatusOf(applied, u) = Initializing
                                    /\ StatusOf(resources', u) = LoadingAsync}
          IN /\ fx'.op = "update"
             /\ left # {}
             /\ Len(toWorker') = Len(toWorker) + 1
             /\ {toWorker'[Len(toWorker')][k].uri :
                    k \in 1..Len(toWorker'[Len(toWorker')])} = left]_vars

\* C28 witness: an update() has run its loop over a non-empty registry with
\* nothing Initializing and posted nothing, and nothing is in flight in
\* either direction.
C28_Witness ==
    /\ fx.op = "update" /\ ~defined(fx.error)
    /\ fx.posted = <<>> /\ fx.syncs # <<>>
    /\ toWorker = <<>> /\ toMain = <<>> /\ processed = <<>>

\* C29 as claimed: a loadResourceList that raises on a uri already present,
\* and an unloadResourceList that raises on a uri not registered, leave the
\* registered uris and every status as they were before the call.
C29_RaisingCallHasNoEffect ==
    /\ \A list \in ListsOf(Descriptors, MaxListLen) :
          LET st == LoadLoop(list, 1, [resources |-> resources, loads |-> loads,
                                       error |-> None])
          IN defined(st.error) => Statuses(st.resources) = Statuses(resources)
    /\ \A list \in ListsOf(Uris, MaxListLen) :
          LET st == UnloadLoop(list, 1, [resources |-> resources, error |-> None])
          IN defined(st.error) => Statuses(st.resources) = Statuses(resources)

\* C29 amended: a call that raises has had its effect on the elements listed
\* before the offending one and on nothing else: loadResourceList has
\* registered them as Initializing, in order, after the entries there were,
\* and unloadResourceList has set them Unloaded; the offending element and
\* those after it have no effect, and every other entry is as before.
C29_RaisingCallKeepsItsPrefix ==
    /\ \A list \in ListsOf(Descriptors, MaxListLen) :
          LET st == LoadLoop(list, 1, [resources |-> resources, loads |-> loads,
                                       error |-> None])
              Present(i) == \/ Has(resources, list[i].uri)
                            \/ \E j \in 1..(i - 1) : list[j].uri = list[i].uri
              before == {i \in 1..Len(list) : \A j \in 1..i : ~Present(j)}
          IN defined(st.error)
             => /\ Len(st.resources) = Len(resources) + Cardinality(before)
                /\ \A n \in 1..Len(resources) : st.resources[n] = resources[n]
                /\ \A i \in before :
                      /\ st.resources[Len(resources) + i].uri = list[i].uri
                      /\ st.resources[Len(resources) + i].type = list[i].type
                      /\ st.resources[Len(resources) + i].status = Initializing
    /\ \A list \in ListsOf(Uris, MaxListLen) :
          LET st == UnloadLoop(list, 1, [resources |-> resources, error |-> None])
              Unknown(i) == ~Has(resources, list[i])
              before == {list[i] : i \in {n \in 1..Len(list) : \A j \in 1..n : ~Unknown(j)}}
          IN defined(st.error)
             => /\ Len(st.resources) = Len(resources)
                /\ \A n \in 1..Len(resources) :
                      st.resources[n] = IF resources[n].uri \in before
                                        THEN MarkUnloaded(resources[n])
                                        ELSE resources[n]

\* C29 witness: unloadResourceList has just raised on b.png, which is not
\* registered, and a.png, which it can only have listed before b.png in a
\* raising call or unloaded earlier, is Unloaded; and in this state a call
\* listing a registered and then an unknown uri raises after changing the
\* registry.
C29_Witness ==
    /\ fx.op = "unloadResourceList"
    /\ fx.error = Some(<<"Attempt to unload unknown resource: ", "b.png">>)
    /\ StatusOf(resources, "a.png") = Unloaded
    /\ ~Has(resources, "b.png")
    /\ \E list \in ListsOf(Descriptors, MaxListLen) :
          LET st == LoadLoop(list, 1, [resources |-> resources, loads |-> loads,
                                       error |-> None])
          IN defined(st.error) /\ Len(st.resources) > Len(resources)

\* C30: the worker never holds, in flight or processed, two resources with
\* the same uri, and update() never applies to a registered uri a reply of a
\* registration earlier than the one the registry holds for it.
C30_OneLoadPerUri ==
    /\ [](/\ \A x, y \in HeldByWorker : x.uri = y.uri => x = y
          /\ \A j, k \in 1..Len(processed) :
                processed[j].uri = processed[k].uri => j = k)
    /\ [][fx'.op = "update" =>
          \A k \in 1..Len(fx'.applied) :
              Has(resources, fx'.applied[k].uri)
              => Get(resources, fx'.applied[k].uri).reg <= fx'.applied[k].reg]_vars

\* C31: every device texture that was created and not removed is the handle
\* held by exactly one registry entry, an entry of the uri it was created for.
C31_NoTextureLeak ==
    \A t \in textures :
        /\ Cardinality({i \in 1..Len(resources) : resources[i].texture = Some(t.id)}) = 1
        /\ \E i \in 1..Len(resources) :
              resources[i].texture = Some(t.id) /\ resources[i].uri = t.uri

\* C32: every handle update() passes to removeTexture is the handle of a
\* device texture that exists when update() starts, and is passed once; an
\* entry whose texture field is still -1 causes no removeTexture call.
C32_RemoveOnlyLiveHandles ==
    [][fx'.op = "update" =>
        \A k \in 1..Len(fx'.removes) :
            /\ fx'.removes[k] \in {t.id : t \in textures}
            /\ Count(fx'.removes, fx'.removes[k]) = 1
            /\ fx'.removes[k] # -1]_vars

\* C33: when unloadResourceList marks an entry that is still Initializing,
\* the update() that follows removes the entry from the registry, runs its
\* loader's unload phase once and does not put it in the batch for the
\* worker; and no load of that registration is with the worker.
C33_UnloadedWhileInitializingIsRemoved ==
    [][fx'.op = "unloadResourceList" =>
        \A i \in 1..Len(resources) :
            (resources[i].status = Initializing /\ resources'[i].status = Unloaded) =>
                /\ Id(resources[i]) \notin PendingLoads'
                /\ \A ok \in [Uris -> BOOLEAN] :
                      LET st == updateLoop(ok)'
                      IN /\ ~Has(st.resources, resources[i].uri)
                         /\ Count(st.fx.unloads, resources[i].uri) = 1
                         /\ \A k \in 1..Len(st.asyncList) :
                               st.asyncList[k].uri # resources[i].uri]_vars

====
